---------------------------- MODULE Spec2Model ----------------------------
(***************************************************************************)
(* A model of akv.py: the cache file ~/.akv_cache.json, the Azure CLI      *)
(* calls that fill it, and the search over it.                             *)
(*                                                                         *)
(* Strings are sequences of one-character strings, so that strip, split,   *)
(* startswith, the "*" -> ".*" rewrite and the ordering used by sorted()   *)
(* are computed the way Python computes them.                              *)
(*                                                                         *)
(* A dict is a sequence of entries [k, none, s] in insertion order with    *)
(* unique keys; none = TRUE is Python's None, otherwise s is the list.     *)
(*                                                                         *)
(* Several invocations of the program (the processes Procs) run against    *)
(* the same cache file and interleave at the file operations and at the    *)
(* returns of the az calls.                                                *)
(***************************************************************************)
EXTENDS Integers, Sequences, FiniteSets, TLC

\* ------------------------------------------------------------------ bounds

\* The invocations of the program: each process runs the program once, at
\* the same time as the other or after it.
Procs == {1, 2}

\* The longest search text of SpecSearch.
MaxPatLen == 3

\* ThreadPoolExecutor(max_workers=10)
MaxWorkers == 10

\* The vaults of SpecPool: more than the pool has workers.
PoolVaults == 11

\* ----------------------------------------------------------------- strings

NL == "\n"

\* The code point of a character (ASCII), the order Python compares by.
CharCode(c) ==
    CASE c = NL  -> 10
      [] c = "*" -> 42
      [] c = "." -> 46
      [] c = "/" -> 47
      [] c = "a" -> 97
      [] c = "b" -> 98
      [] c = "f" -> 102
      [] c = "s" -> 115
      [] c = "t" -> 116
      [] OTHER   -> 122

Min(a, b) == IF a < b THEN a ELSE b
Max(a, b) == IF a < b THEN b ELSE a

\* str < str
StrLess(a, b) ==
    \E i \in 1..(Min(Len(a), Len(b)) + 1) :
        /\ \A j \in 1..(i - 1) : a[j] = b[j]
        /\ \/ i > Len(a) /\ i <= Len(b)
           \/ i <= Len(a) /\ i <= Len(b) /\ CharCode(a[i]) < CharCode(b[i])

\* str.startswith
StartsWith(s, p) ==
    /\ Len(p) <= Len(s)
    /\ \A i \in 1..Len(p) : s[i] = p[i]

\* Variant: the output of az taken as it is, with its last newline.
StripNothing(s) == s

RECURSIVE Strip(_)
\* str.strip(): leading and trailing whitespace removed.
Strip(s) ==
    IF s = <<>> THEN s
    ELSE IF Head(s) = NL THEN Strip(Tail(s))
    ELSE IF s[Len(s)] = NL THEN Strip(SubSeq(s, 1, Len(s) - 1))
    ELSE s

RECURSIVE SplitLines(_)
\* str.split("\n")
SplitLines(s) ==
    IF \A i \in 1..Len(s) : s[i] # NL THEN <<s>>
    ELSE LET i == CHOOSE j \in 1..Len(s) :
                     s[j] = NL /\ \A h \in 1..(j - 1) : s[h] # NL
         IN  <<SubSeq(s, 1, i - 1)>> \o SplitLines(SubSeq(s, i + 1, Len(s)))

RECURSIVE ReplaceStar(_)
\* str.replace("*", ".*")
ReplaceStar(s) ==
    IF s = <<>> THEN <<>>
    ELSE (IF Head(s) = "*" THEN <<".", "*">> ELSE <<Head(s)>>)
         \o ReplaceStar(Tail(s))

\* ------------------------------------------------------------ sorted(), dict

RECURSIVE InsertStr(_, _)
InsertStr(x, sq) ==
    IF sq = <<>> THEN <<x>>
    ELSE IF StrLess(x, Head(sq)) THEN <<x>> \o sq
    ELSE <<Head(sq)>> \o InsertStr(x, Tail(sq))

\* Variant: the secret names left in the order az listed them.
SortedStrsAsListed(sq) == sq

RECURSIVE SortedStrs(_)
\* sorted(secrets)
SortedStrs(sq) ==
    IF sq = <<>> THEN <<>>
    ELSE InsertStr(sq[Len(sq)], SortedStrs(SubSeq(sq, 1, Len(sq) - 1)))

RECURSIVE InsertItem(_, _)
InsertItem(x, sq) ==
    IF sq = <<>> THEN <<x>>
    ELSE IF StrLess(x.k, Head(sq).k) THEN <<x>> \o sq
    ELSE <<Head(sq)>> \o InsertItem(x, Tail(sq))

\* Variant: the items left in the order of insertion.
SortedItemsAsInserted(d) == d

RECURSIVE SortedItems(_)
\* sorted(cache.items()): the keys of a dict are unique, so by key.
SortedItems(d) ==
    IF d = <<>> THEN <<>>
    ELSE InsertItem(d[Len(d)], SortedItems(SubSeq(d, 1, Len(d) - 1)))

HasKey(d, k) == \E i \in 1..Len(d) : d[i].k = k

\* d[k] = value, keeping the place of a key the dict already holds.
DictSet(d, e) ==
    IF HasKey(d, e.k)
    THEN [i \in 1..Len(d) |-> IF d[i].k = e.k THEN e ELSE d[i]]
    ELSE Append(d, e)

Entry(k, s) == [k |-> k, none |-> FALSE, s |-> s]
NoneEntry(k) == [k |-> k, none |-> TRUE, s |-> <<>>]

\* the entry of key k (the key is in d)
Get(d, k) == d[CHOOSE i \in 1..Len(d) : d[i].k = k]

\* "if secrets": neither None nor an empty list
Truthy(e) == ~e.none /\ e.s # <<>>


\* ------------------------------------------------------- the Azure CLI (az)

va == <<"a">>
vb == <<"b">>
vf == <<"f">>
ss == <<"s">>
st == <<"t">>

\* What the remote directory may hold: vaults in the order az lists them,
\* each with its secret names in the order az lists them.
RemoteStates ==
    { <<>>,
      <<Entry(vb, <<st, ss>>), Entry(va, <<>>)>> }

\* The vault names given on the command line.
VaultArgs == {va, vb}

\* -o tsv: one name per line
RECURSIVE TsvOut(_)
TsvOut(strs) ==
    IF strs = <<>> THEN <<>>
    ELSE Head(strs) \o <<NL>> \o TsvOut(Tail(strs))

KeyList(d) == [i \in 1..Len(d) |-> d[i].k]

\* What subprocess.run can do with a command: return with status 0 and an
\* output, fail with a non-zero status and an error text (a connection
\* failure, an "ERROR:" of the service, anything else), or find no az.
Completed(stdout) == [rc |-> "ok", stdout |-> stdout, stderr |-> "none"]
Failed == {[rc |-> "err", stdout |-> <<>>, stderr |-> e] :
               e \in {"conn", "error", "other"}}
NoCli == [rc |-> "nocli", stdout |-> <<>>, stderr |-> "none"]

\* az keyvault list --query [].name -o tsv
AzKeyvaultList(rem) == {Completed(TsvOut(KeyList(rem)))} \cup Failed \cup {NoCli}

\* az keyvault secret list --vault-name v --query [].name -o tsv
AzSecretList(rem, v) ==
    (IF HasKey(rem, v) THEN {Completed(TsvOut(Get(rem, v).s))} ELSE {})
    \cup Failed \cup {NoCli}

\* az keyvault secret set --vault-name v --name n --value x -o tsv, for a
\* secret name the vault already holds (the names do not change).
AzSecretSet(rem, v) ==
    (IF HasKey(rem, v) THEN {Completed(<<>>)} ELSE {})
    \cup Failed \cup {NoCli}

\* The results of the Python functions: t is "str", "None", "list", "pair"
\* or "raise" (an AzureCLIError, msg its message).
Value(t, v) == [t |-> t, v |-> v, msg |-> "none"]
Raise(msg) == [t |-> "raise", v |-> <<>>, msg |-> msg]

run_command(r) ==
    IF r.rc = "ok" THEN Value("str", Strip(r.stdout))
    ELSE IF r.rc = "err"
         THEN IF r.stderr = "conn" THEN Raise("Unable to connect")
              ELSE IF r.stderr = "error" THEN Raise("Azure CLI returned an error")
              ELSE Raise("Command failed")
    ELSE Value("None", <<>>)

\* Variant: the split without the "if result" guard, so that an empty
\* output lists one vault with the empty name.
fetch_keyvault_names_unguarded(r) ==
    LET result == run_command(r)
    IN  IF result.t = "raise" THEN result
        ELSE Value("list", IF result.t = "str"
                           THEN SplitLines(result.v) ELSE <<>>)

fetch_keyvault_names(r) ==
    LET result == run_command(r)
    IN  IF result.t = "raise" THEN result
        ELSE Value("list", IF result.t = "str" /\ result.v # <<>>
                           THEN SplitLines(result.v) ELSE <<>>)

\* Variant: the AzureCLIError caught here and turned into (vault, None).
fetch_secrets_for_vault_swallowing(vault, r) ==
    LET result == run_command(r)
    IN  IF result.t \in {"raise", "None"} THEN Value("pair", NoneEntry(vault))
        ELSE Value("pair", Entry(vault, IF result.v # <<>>
                                        THEN SplitLines(result.v) ELSE <<>>))

\* The pair (vault, secrets) as an entry of a dict.
fetch_secrets_for_vault(vault, r) ==
    LET result == run_command(r)
    IN  IF result.t = "raise" THEN result
        ELSE IF result.t = "None" THEN Value("pair", NoneEntry(vault))
        ELSE Value("pair", Entry(vault, IF result.v # <<>>
                                        THEN SplitLines(result.v) ELSE <<>>))

\* ----------------------------------------------------------- the cache file

\* The file is the sequence of the pieces written into it: the entries of
\* a json.dump, then its end.  Every writer has its own file position, so a
\* piece carries its writer (0 wrote the file the behaviour starts with).
\* A file made of the pieces of several writers is no valid JSON.
Piece(w, e) == [w |-> w, end |-> FALSE, hole |-> FALSE, e |-> e]
EndPiece(w) == [w |-> w, end |-> TRUE, hole |-> FALSE, e |-> NoneEntry(<<>>)]
Hole == [w |-> 0, end |-> FALSE, hole |-> TRUE, e |-> NoneEntry(<<>>)]

NoFile == [exists |-> FALSE, toks |-> <<>>]

\* json.dump(sorted_cache, f, indent=4); f.write('\n'), all of it
Dumped(w, sorted_cache) ==
    [exists |-> TRUE,
     toks |-> [i \in 1..(Len(sorted_cache) + 1) |->
                  IF i <= Len(sorted_cache) THEN Piece(w, sorted_cache[i])
                  ELSE EndPiece(w)]]

\* write at position i of the file
PutAt(toks, i, t) ==
    [j \in 1..Max(Len(toks), i) |->
        IF j = i THEN t ELSE IF j <= Len(toks) THEN toks[j] ELSE Hole]

\* The bytes are one complete JSON document.
ValidJson(f) ==
    /\ f.exists
    /\ Len(f.toks) >= 1
    /\ f.toks[Len(f.toks)].end
    /\ \A i \in 1..Len(f.toks) :
          /\ ~f.toks[i].hole
          /\ f.toks[i].w = f.toks[1].w
          /\ i < Len(f.toks) => ~f.toks[i].end

\* json.load(f)
JsonLoad(f) == [i \in 1..(Len(f.toks) - 1) |-> f.toks[i].e]

\* The try block of read_cache: what open and json.load meet, and the dict
\* returned.
LoadCache(f) ==
    IF ~f.exists THEN [met |-> "absent", cache |-> <<>>]
    ELSE IF ~ValidJson(f) THEN [met |-> "corrupt", cache |-> <<>>]
    ELSE [met |-> "ok", cache |-> JsonLoad(f)]

\* sorted_cache of write_cache_to_file
SortedCache(cache) ==
    LET items == SortedItems(cache)
    IN  [i \in 1..Len(items) |->
            Entry(items[i].k,
                  IF Truthy(items[i]) THEN SortedStrs(items[i].s) ELSE <<>>)]

\* {kv: [] for kv in keyvault_names}
RECURSIVE FromNames(_)
FromNames(nms) ==
    IF nms = <<>> THEN <<>>
    ELSE DictSet(FromNames(SubSeq(nms, 1, Len(nms) - 1)),
                 Entry(nms[Len(nms)], <<>>))

\* The files a behaviour may start with: none, or one an earlier invocation
\* wrote.
InitSnapshots ==
    { <<Entry(va, <<ss>>), Entry(vf, <<>>)>> }

InitFiles == {NoFile} \cup {Dumped(0, sn) : sn \in InitSnapshots}

\* ------------------------------------------------------------------ search

Slash == <<"/">>

RECURSIVE SecretPaths(_, _)
SecretPaths(vault, secrets) ==
    IF secrets = <<>> THEN <<>>
    ELSE Append(SecretPaths(vault, SubSeq(secrets, 1, Len(secrets) - 1)),
                [k |-> vault \o Slash \o secrets[Len(secrets)],
                 vault |-> vault, none |-> FALSE, secret |-> secrets[Len(secrets)]])

RECURSIVE SetAll(_, _)
SetAll(d, es) ==
    IF es = <<>> THEN d ELSE SetAll(DictSet(d, Head(es)), Tail(es))

RECURSIVE create_vault_secret_map(_)
\* vault_secret_map: key path, value (vault, secret)
create_vault_secret_map(cache) ==
    IF cache = <<>> THEN <<>>
    ELSE LET rest == create_vault_secret_map(SubSeq(cache, 1, Len(cache) - 1))
             e == cache[Len(cache)]
         IN  IF Truthy(e) THEN SetAll(rest, SecretPaths(e.k, e.s))
             ELSE DictSet(rest, [k |-> e.k \o Slash, vault |-> e.k,
                                 none |-> TRUE, secret |-> <<>>])

\* The compiled pattern as its atoms: a character or ".", starred or not.
RECURSIVE Atoms(_)
Atoms(r) ==
    IF r = <<>> THEN <<>>
    ELSE IF Len(r) >= 2 /\ r[2] = "*"
         THEN <<[c |-> r[1], star |-> TRUE]>> \o Atoms(SubSeq(r, 3, Len(r)))
         ELSE <<[c |-> r[1], star |-> FALSE]>> \o Atoms(Tail(r))

AtomOk(c, x) == IF c = "." THEN x # NL ELSE c = x

RECURSIVE MatchAtoms(_, _)
\* the atoms, then "$": the end, or the newline that ends the string
MatchAtoms(as, s) ==
    IF as = <<>> THEN s = <<>> \/ s = <<NL>>
    ELSE IF Head(as).star
         THEN \/ MatchAtoms(Tail(as), s)
              \/ s # <<>> /\ AtomOk(Head(as).c, Head(s)) /\ MatchAtoms(as, Tail(s))
         ELSE s # <<>> /\ AtomOk(Head(as).c, Head(s)) /\ MatchAtoms(Tail(as), Tail(s))

\* re.compile(regex_pattern).match(key), regex_pattern "^" ... "$"
ReMatch(regex_pattern, key) ==
    MatchAtoms(Atoms(SubSeq(regex_pattern, 2, Len(regex_pattern) - 1)), key)

HasStar(text) == \E i \in 1..Len(text) : text[i] = "*"

\* Variant: the text found anywhere in the key ("in" for startswith).
KeyMatchesAnywhere(key, search_text) ==
    IF HasStar(search_text)
    THEN ReMatch(<<"^">> \o ReplaceStar(search_text) \o <<"$">>, key)
    ELSE \E i \in 0..Len(key) : StartsWith(SubSeq(key, i + 1, Len(key)), search_text)

KeyMatches(key, search_text) ==
    IF HasStar(search_text)
    THEN ReMatch(<<"^">> \o ReplaceStar(search_text) \o <<"$">>, key)
    ELSE StartsWith(key, search_text)

perform_search(vault_secret_map, search_text) ==
    LET Hit(e) == KeyMatches(e.k, search_text)
    IN  KeyList(SelectSeq(vault_secret_map, Hit))

\* ------------------------------------------------------------------- state

VARIABLES
    remote,   \* the vaults and secret names the directory service holds
    online,   \* the machine reaches the service; if not, az fails to connect
    file,     \* the cache file CACHE_FILE
    pc,       \* where each invocation stands
    cmd,      \* its command line: [op, vault, text]
    inRead,   \* it is inside read_cache's call of update_cache
    names,    \* keyvault_names
    fut,      \* the futures of the pool, one per name
    vaults,   \* the dict fetch_keyvault_and_secret_names fills
    pbar,     \* the progress bar's count
    got,      \* (vault, secrets) of update_specific_vault
    cache,    \* the dict read_cache returned
    existed,  \* what CACHE_FILE.exists() told read_cache: "yes" or "no"
    seen,     \* the file as read_cache's open found it
    met,      \* what that open / json.load met
    buf,      \* sorted_cache, being written
    wpos,     \* the position of the writer in the file
    wrote,    \* write_cache_to_file has run to its end in this invocation
    matches,  \* the matches of search
    out,      \* the (vault, secret) lines search displayed
    exc,      \* the exception that reached main
    caught,   \* an AzureCLIError was caught and printed below main
    exit,     \* the exit status, -1 while running
    failures, \* the az calls of the invocation that did not complete
    calls     \* the number of az commands the invocation has run

vars == <<remote, online, file, pc, cmd, inRead, names, fut, vaults, pbar,
          got, cache, existed, seen, met, buf, wpos, wrote, matches, out, exc,
          caught, exit, failures, calls>>

pool == <<fut, vaults, pbar>>
read == <<cache, existed, seen, met>>
result == <<matches, out, exc, caught, exit>>

NoCmd == [op |-> "none", vault |-> <<>>, text |-> <<>>]

\* The search texts of Spec.
SearchTexts == {<<"a">>, <<"b", "/", "*">>, <<"f">>}

Commands ==
    {[op |-> o, vault |-> <<>>, text |-> <<>>] : o \in {"update", "update_all"}}
    \cup {[op |-> o, vault |-> v, text |-> <<>>] :
              o \in {"kv_update", "kv_set"}, v \in VaultArgs}
    \cup {[op |-> "search", vault |-> <<>>, text |-> t] : t \in SearchTexts}

\* args.func of a command
EntryPoint(c) ==
    CASE c.op = "update"     -> "update_cache"
      [] c.op = "update_all" -> "fetch_all"
      [] c.op = "kv_update"  -> "fetch_one"
      [] c.op = "kv_set"     -> "set_secret"
      [] c.op = "search"     -> "read_exists"

Fresh(f, p, v) == [f EXCEPT ![p] = v]

\* No invocation has run a line yet.
InitLocals ==
    /\ inRead = [p \in Procs |-> FALSE]
    /\ names = [p \in Procs |-> <<>>]
    /\ fut = [p \in Procs |-> <<>>]
    /\ vaults = [p \in Procs |-> <<>>]
    /\ pbar = [p \in Procs |-> 0]
    /\ got = [p \in Procs |-> NoneEntry(<<>>)]
    /\ cache = [p \in Procs |-> <<>>]
    /\ existed = [p \in Procs |-> "none"]
    /\ seen = [p \in Procs |-> NoFile]
    /\ met = [p \in Procs |-> "none"]
    /\ buf = [p \in Procs |-> <<>>]
    /\ wpos = [p \in Procs |-> 0]
    /\ wrote = [p \in Procs |-> FALSE]
    /\ matches = [p \in Procs |-> <<>>]
    /\ out = [p \in Procs |-> <<>>]
    /\ exc = [p \in Procs |-> "none"]
    /\ caught = [p \in Procs |-> FALSE]
    /\ exit = [p \in Procs |-> -1]
    /\ failures = [p \in Procs |-> {}]
    /\ calls = [p \in Procs |-> 0]

Init ==
    /\ remote \in RemoteStates
    /\ online = TRUE
    /\ file \in InitFiles
    /\ pc = [p \in Procs |-> "idle"]
    /\ cmd = [p \in Procs |-> NoCmd]
    /\ InitLocals

\* main: parse the command line and call args.func(args).
Start(p) ==
    /\ pc[p] = "idle"
    /\ \E c \in Commands :
          /\ cmd' = Fresh(cmd, p, c)
          /\ pc' = Fresh(pc, p, EntryPoint(c))
    /\ inRead' = Fresh(inRead, p, FALSE)
    /\ names' = Fresh(names, p, <<>>)
    /\ fut' = Fresh(fut, p, <<>>)
    /\ vaults' = Fresh(vaults, p, <<>>)
    /\ pbar' = Fresh(pbar, p, 0)
    /\ got' = Fresh(got, p, NoneEntry(<<>>))
    /\ cache' = Fresh(cache, p, <<>>)
    /\ existed' = Fresh(existed, p, "none")
    /\ seen' = Fresh(seen, p, NoFile)
    /\ met' = Fresh(met, p, "none")
    /\ buf' = Fresh(buf, p, <<>>)
    /\ wpos' = Fresh(wpos, p, 0)
    /\ wrote' = Fresh(wrote, p, FALSE)
    /\ matches' = Fresh(matches, p, <<>>)
    /\ out' = Fresh(out, p, <<>>)
    /\ exc' = Fresh(exc, p, "none")
    /\ caught' = Fresh(caught, p, FALSE)
    /\ exit' = Fresh(exit, p, -1)
    /\ failures' = Fresh(failures, p, {})
    /\ calls' = Fresh(calls, p, 0)
    /\ UNCHANGED <<remote, online, file>>

\* What subprocess.run does with a command whose outcomes are S when the
\* service is reached.
Outcomes(S) ==
    IF online THEN S ELSE {r \in Failed : r.stderr = "conn"}

\* The az call `call` ended as r: counted, and noted when it did not
\* complete.
Noted(p, call, r) ==
    /\ calls' = Fresh(calls, p, calls[p] + 1)
    /\ failures' = IF r.rc = "ok" THEN failures
                   ELSE Fresh(failures, p,
                              failures[p] \cup {[call |-> call, rc |-> r.rc]})

\* args.func returned: main ends with status 0.
Return(p) ==
    /\ pc' = Fresh(pc, p, "done")
    /\ exit' = Fresh(exit, p, 0)

\* An exception reached main's except clause: printed, sys.exit(1).
Uncaught(p, e) ==
    /\ pc' = Fresh(pc, p, "done")
    /\ exit' = Fresh(exit, p, 1)
    /\ exc' = Fresh(exc, p, e)

\* update_specific_vault is the one caller with an except AzureCLIError
\* around read_cache.
InUpdateSpecificVault(p) == cmd[p].op \in {"kv_update", "kv_set"}

\* update_cache, called by main or by read_cache.
UpdateCache(p) ==
    /\ pc[p] = "update_cache"
    /\ \E r \in Outcomes(AzKeyvaultList(remote)) :
          LET keyvault_names == fetch_keyvault_names(r)
          IN  /\ Noted(p, "keyvault list", r)
              /\ IF keyvault_names.t = "raise"
                 THEN IF inRead[p] /\ InUpdateSpecificVault(p)
                      THEN /\ Return(p)
                           /\ caught' = Fresh(caught, p, TRUE)
                           /\ UNCHANGED <<exc, names, buf>>
                      ELSE /\ Uncaught(p, "AzureCLIError")
                           /\ UNCHANGED <<caught, names, buf>>
                 ELSE /\ names' = Fresh(names, p, keyvault_names.v)
                      /\ IF keyvault_names.v # <<>>
                         THEN /\ buf' = Fresh(buf, p,
                                    SortedCache(FromNames(keyvault_names.v)))
                              /\ pc' = Fresh(pc, p, "w_open")
                              /\ UNCHANGED <<exc, caught, exit>>
                         ELSE IF inRead[p]
                              THEN /\ pc' = Fresh(pc, p, "read_open")
                                   /\ UNCHANGED <<exc, caught, exit, buf>>
                              ELSE /\ Return(p)
                                   /\ UNCHANGED <<exc, caught, buf>>
    /\ UNCHANGED <<remote, online, file, cmd, inRead, pool, got, read, wpos,
                   wrote, matches, out>>

\* write_cache_to_file: open(CACHE_FILE, "w") truncates the file.  The home
\* directory is taken to be writable: the except branch of lines 122-123
\* (an OSError of open or write) is not among the behaviours.
WriteOpen(p) ==
    /\ pc[p] = "w_open"
    /\ file' = [exists |-> TRUE, toks |-> <<>>]
    /\ wpos' = Fresh(wpos, p, 0)
    /\ pc' = Fresh(pc, p, "w_dump")
    /\ UNCHANGED <<remote, online, cmd, inRead, names, pool, got, read, buf,
                   wrote, result, failures, calls>>

\* write_cache_to_file: json.dump writes the next entry, or the end of the
\* document and the newline, after which the file is closed and the
\* function returns to its caller.
WriteDump(p) ==
    /\ pc[p] = "w_dump"
    /\ wpos' = Fresh(wpos, p, wpos[p] + 1)
    /\ IF wpos[p] < Len(buf[p])
       THEN /\ file' = [file EXCEPT !.toks =
                           PutAt(@, wpos[p] + 1, Piece(p, buf[p][wpos[p] + 1]))]
            /\ UNCHANGED <<pc, exit, wrote>>
       ELSE /\ file' = [file EXCEPT !.toks = PutAt(@, wpos[p] + 1, EndPiece(p))]
            /\ wrote' = Fresh(wrote, p, TRUE)
            /\ IF inRead[p]
               THEN /\ pc' = Fresh(pc, p, "read_open")
                    /\ UNCHANGED exit
               ELSE Return(p)
    /\ UNCHANGED <<remote, online, cmd, inRead, names, pool, got, read, buf,
                   matches, out, exc, caught, failures, calls>>

\* read_cache: if not CACHE_FILE.exists(): update_cache()
\* Variant: read_cache refreshing the cache on every load.
CacheMissingAlways(f) == TRUE

\* "if not CACHE_FILE.exists()"
CacheMissing(f) == ~f.exists

ReadExists(p) ==
    /\ pc[p] = "read_exists"
    /\ existed' = Fresh(existed, p, IF file.exists THEN "yes" ELSE "no")
    /\ IF CacheMissing(file)
       THEN /\ pc' = Fresh(pc, p, "update_cache")
            /\ inRead' = Fresh(inRead, p, TRUE)
       ELSE /\ pc' = Fresh(pc, p, "read_open")
            /\ UNCHANGED inRead
    /\ UNCHANGED <<remote, online, file, cmd, names, pool, got, cache, seen,
                   met, buf, wpos, wrote, result, failures, calls>>

\* Variant: the check for no matches left out.
NoMatchesUnchecked(ms) == FALSE

\* "if not matches"
NoMatches(ms) == ms = <<>>

\* The lines search displays: display_vault(*vault_secret_map[match]).
Displayed(vault_secret_map, ms) ==
    [i \in 1..Len(ms) |->
        LET e == Get(vault_secret_map, ms[i])
        IN  [vault |-> e.vault, none |-> e.none, secret |-> e.secret]]

\* read_cache: the try block, and what its caller does with the dict:
\* update_specific_vault sets cache[vault] and goes on to write, search
\* matches and displays.
ReadOpen(p) ==
    /\ pc[p] = "read_open"
    /\ LET loaded == LoadCache(file)
       IN  /\ seen' = Fresh(seen, p, file)
           /\ met' = Fresh(met, p, loaded.met)
           /\ cache' = Fresh(cache, p, loaded.cache)
           /\ IF InUpdateSpecificVault(p)
              THEN /\ buf' = Fresh(buf, p, SortedCache(DictSet(loaded.cache, got[p])))
                   /\ pc' = Fresh(pc, p, "w_open")
                   /\ UNCHANGED <<matches, out, exc, exit>>
              ELSE LET vault_secret_map == create_vault_secret_map(loaded.cache)
                       ms == perform_search(vault_secret_map, cmd[p].text)
                   IN  /\ matches' = Fresh(matches, p, ms)
                       /\ UNCHANGED buf
                       /\ IF NoMatches(ms)
                          THEN /\ Uncaught(p, "No matches found")
                               /\ UNCHANGED out
                          ELSE /\ out' = Fresh(out, p, Displayed(vault_secret_map, ms))
                               /\ Return(p)
                               /\ UNCHANGED exc
    /\ inRead' = Fresh(inRead, p, FALSE)
    /\ UNCHANGED <<remote, online, file, cmd, names, pool, got, existed, wpos,
                   wrote, caught, failures, calls>>

\* add_secret_kv / edit_secret_kv: az keyvault secret set, then
\* update_specific_vault; an AzureCLIError is printed and sys.exit(1).
SetSecret(p) ==
    /\ pc[p] = "set_secret"
    /\ \E r \in Outcomes(AzSecretSet(remote, cmd[p].vault)) :
          /\ Noted(p, "secret set", r)
          /\ IF run_command(r).t = "raise"
             THEN /\ pc' = Fresh(pc, p, "done")
                  /\ exit' = Fresh(exit, p, 1)
                  /\ caught' = Fresh(caught, p, TRUE)
             ELSE /\ pc' = Fresh(pc, p, "fetch_one")
                  /\ UNCHANGED <<exit, caught>>
    /\ UNCHANGED <<remote, online, file, cmd, inRead, names, pool, got, read,
                   buf, wpos, wrote, matches, out, exc>>

\* update_specific_vault: fetch_secrets_for_vault(keyvault_name); an
\* AzureCLIError is caught and printed, and the function returns.
FetchOne(p) ==
    /\ pc[p] = "fetch_one"
    /\ \E r \in Outcomes(AzSecretList(remote, cmd[p].vault)) :
          LET res == fetch_secrets_for_vault(cmd[p].vault, r)
          IN  /\ Noted(p, "secret list", r)
              /\ IF res.t = "raise"
                 THEN /\ Return(p)
                      /\ caught' = Fresh(caught, p, TRUE)
                      /\ UNCHANGED got
                 ELSE /\ got' = Fresh(got, p, res.v)
                      /\ pc' = Fresh(pc, p, "read_exists")
                      /\ UNCHANGED <<exit, caught>>
    /\ UNCHANGED <<remote, online, file, cmd, inRead, names, pool, read, buf,
                   wpos, wrote, matches, out, exc>>

\* A future of the pool: pending (queued), running, or done with the
\* result or the exception of fetch_secrets_for_vault; taken once
\* as_completed has yielded it.
Submitted == [state |-> "pending", res |-> Value("pair", NoneEntry(<<>>)),
              taken |-> FALSE]

Running(p) == {i \in 1..Len(fut[p]) : fut[p][i].state = "running"}

\* Variant: a thread for every work item.
WorkerFreeAlways(p) == TRUE

\* ThreadPoolExecutor(max_workers=10): a work item is taken by a thread
\* that runs no other.
WorkerFree(p) == Cardinality(Running(p)) < MaxWorkers

\* Variant: the executor shut down without waiting, shutdown(wait=False).
AllDoneNotAwaited(p) == TRUE

\* The wait of the executor's shutdown, on leaving the with block: every
\* future has run to its end.
AllDone(p) == \A j \in 1..Len(fut[p]) : fut[p][j].state = "done"

\* fetch_keyvault_and_secret_names up to the submits; update_all writes
\* the empty dict it returns when no vault is listed.
FetchAll(p) ==
    /\ pc[p] = "fetch_all"
    /\ \E r \in Outcomes(AzKeyvaultList(remote)) :
          LET keyvault_names == fetch_keyvault_names(r)
          IN  /\ Noted(p, "keyvault list", r)
              /\ IF keyvault_names.t = "raise"
                 THEN /\ Uncaught(p, "AzureCLIError")
                      /\ UNCHANGED <<names, fut, buf>>
                 ELSE /\ names' = Fresh(names, p, keyvault_names.v)
                      /\ IF keyvault_names.v = <<>>
                         THEN /\ buf' = Fresh(buf, p, SortedCache(<<>>))
                              /\ pc' = Fresh(pc, p, "w_open")
                              /\ UNCHANGED <<fut, exc, exit>>
                         ELSE /\ fut' = Fresh(fut, p,
                                    [i \in 1..Len(keyvault_names.v) |-> Submitted])
                              /\ pc' = Fresh(pc, p, "pool")
                              /\ UNCHANGED <<buf, exc, exit>>
    /\ UNCHANGED <<remote, online, file, cmd, inRead, vaults, pbar, got,
                   read, wpos, wrote, matches, out, caught>>

\* A worker thread of the pool takes the next work item of the queue.
WorkerStart(p, i) ==
    /\ pc[p] \in {"pool", "pool_exit"}
    /\ i \in 1..Len(fut[p])
    /\ fut[p][i].state = "pending"
    /\ \A j \in 1..(i - 1) : fut[p][j].state # "pending"
    /\ WorkerFree(p)
    /\ fut' = [fut EXCEPT ![p][i].state = "running"]
    /\ UNCHANGED <<remote, online, file, pc, cmd, inRead, names, vaults,
                   pbar, got, read, buf, wpos, wrote, result, failures, calls>>

\* The az call of a worker returns: the future is done.
WorkerFinish(p, i) ==
    /\ pc[p] \in {"pool", "pool_exit"}
    /\ i \in 1..Len(fut[p])
    /\ fut[p][i].state = "running"
    /\ \E r \in Outcomes(AzSecretList(remote, names[p][i])) :
          fut' = [fut EXCEPT ![p][i] =
                     [state |-> "done",
                      res |-> fetch_secrets_for_vault(names[p][i], r),
                      taken |-> FALSE]]
    /\ calls' = Fresh(calls, p, calls[p] + 1)
    /\ UNCHANGED <<remote, online, file, pc, cmd, inRead, names, vaults,
                   pbar, got, read, buf, wpos, wrote, result, failures>>

\* Variant: the progress bar not advanced.
PbarNotUpdated(n) == n

\* pbar.update(1)
PbarUpdate(n) == n + 1

\* The loop over as_completed: future.result() returns the pair, which is
\* stored, or raises the worker's exception, which leaves the loop.  After
\* the last future update_all goes on to write.
Collect(p, i) ==
    /\ pc[p] = "pool"
    /\ i \in 1..Len(fut[p])
    /\ fut[p][i].state = "done"
    /\ ~fut[p][i].taken
    /\ fut' = [fut EXCEPT ![p][i].taken = TRUE]
    /\ IF fut[p][i].res.t = "raise"
       THEN /\ exc' = Fresh(exc, p, "AzureCLIError")
            /\ pc' = Fresh(pc, p, "pool_exit")
            /\ UNCHANGED <<vaults, pbar, buf>>
       ELSE /\ vaults' = Fresh(vaults, p, DictSet(vaults[p], fut[p][i].res.v))
            /\ pbar' = Fresh(pbar, p, PbarUpdate(pbar[p]))
            /\ UNCHANGED exc
            /\ IF \A j \in 1..Len(fut[p]) : j # i => fut[p][j].taken
               THEN /\ buf' = Fresh(buf, p,
                          SortedCache(DictSet(vaults[p], fut[p][i].res.v)))
                    /\ pc' = Fresh(pc, p, "w_open")
               ELSE UNCHANGED <<buf, pc>>
    /\ UNCHANGED <<remote, online, file, cmd, inRead, names, got, read,
                   wpos, wrote, matches, out, caught, exit, failures, calls>>

\* The exception leaves the with blocks: the executor's shutdown waits for
\* every future, then the exception reaches main.
PoolExit(p) ==
    /\ pc[p] = "pool_exit"
    /\ AllDone(p)
    /\ pc' = Fresh(pc, p, "done")
    /\ exit' = Fresh(exit, p, 1)
    /\ UNCHANGED <<remote, online, file, cmd, inRead, names, pool, got, read,
                   buf, wpos, wrote, matches, out, exc, caught, failures, calls>>

Next ==
    \E p \in Procs :
        \/ Start(p)
        \/ UpdateCache(p)
        \/ FetchAll(p)
        \/ \E i \in 1..Len(fut[p]) : WorkerStart(p, i)
        \/ \E i \in 1..Len(fut[p]) : WorkerFinish(p, i)
        \/ \E i \in 1..Len(fut[p]) : Collect(p, i)
        \/ PoolExit(p)
        \/ SetSecret(p)
        \/ FetchOne(p)
        \/ ReadExists(p)
        \/ ReadOpen(p)
        \/ WriteOpen(p)
        \/ WriteDump(p)

Spec == Init /\ [][Next]_vars

\* ------------------------------------------------- search on bounded inputs

SearchAlphabet == {"a", "b", "/", "*", "."}

RECURSIVE StringsUpTo(_)
StringsUpTo(n) ==
    IF n = 0 THEN {<<>>}
    ELSE StringsUpTo(n - 1)
         \cup {Append(t, c) : t \in StringsUpTo(n - 1), c \in SearchAlphabet}

vab == <<"a", "b">>

\* Cache files as write_cache_to_file leaves them (sorted).
SearchSnapshots ==
    { <<>>,
      <<Entry(va, <<vb>>), Entry(vab, <<>>)>>,
      <<Entry(va, <<>>), Entry(vab, <<va, vb>>)>> }

\* One invocation, akv search <text>, over a cache file that exists.
InitSearch ==
    /\ remote = <<>>
    /\ online = TRUE
    /\ file \in {Dumped(0, sn) : sn \in SearchSnapshots}
    /\ \E t \in StringsUpTo(MaxPatLen) :
          cmd = [p \in Procs |->
                    IF p = 1 THEN [op |-> "search", vault |-> <<>>, text |-> t]
                    ELSE NoCmd]
    /\ pc = [p \in Procs |-> IF p = 1 THEN "read_exists" ELSE "idle"]
    /\ InitLocals

NextSearch == \E p \in Procs : ReadExists(p) \/ ReadOpen(p)

SpecSearch == InitSearch /\ [][NextSearch]_vars

\* ------------------------------------------- the pool with many vaults

\* Vault names "a", "aa", "aaa", ...
VaultName(i) == [j \in 1..i |-> "a"]

\* A directory of PoolVaults vaults.
PoolRemote == [i \in 1..PoolVaults |-> Entry(VaultName(i), <<>>)]

\* One invocation, akv update_all, at the point where az has listed the
\* vaults and every fetch is submitted to the pool; the connection to the
\* service has dropped since, so every fetch fails to connect.
InitPool ==
    /\ remote = PoolRemote
    /\ online = FALSE
    /\ file \in InitFiles
    /\ cmd = [p \in Procs |->
                 IF p = 1 THEN [op |-> "update_all", vault |-> <<>>, text |-> <<>>]
                 ELSE NoCmd]
    /\ pc = [p \in Procs |-> IF p = 1 THEN "pool" ELSE "idle"]
    /\ names = [p \in Procs |-> IF p = 1 THEN KeyList(PoolRemote) ELSE <<>>]
    /\ fut = [p \in Procs |->
                 IF p = 1 THEN [i \in 1..PoolVaults |-> Submitted] ELSE <<>>]
    /\ calls = [p \in Procs |-> IF p = 1 THEN 1 ELSE 0]
    /\ inRead = [p \in Procs |-> FALSE]
    /\ vaults = [p \in Procs |-> <<>>]
    /\ pbar = [p \in Procs |-> 0]
    /\ got = [p \in Procs |-> NoneEntry(<<>>)]
    /\ cache = [p \in Procs |-> <<>>]
    /\ existed = [p \in Procs |-> "none"]
    /\ seen = [p \in Procs |-> NoFile]
    /\ met = [p \in Procs |-> "none"]
    /\ buf = [p \in Procs |-> <<>>]
    /\ wpos = [p \in Procs |-> 0]
    /\ wrote = [p \in Procs |-> FALSE]
    /\ matches = [p \in Procs |-> <<>>]
    /\ out = [p \in Procs |-> <<>>]
    /\ exc = [p \in Procs |-> "none"]
    /\ caught = [p \in Procs |-> FALSE]
    /\ exit = [p \in Procs |-> -1]
    /\ failures = [p \in Procs |-> {}]

NextPool ==
    \E p \in Procs :
        \/ \E i \in 1..Len(fut[p]) : WorkerStart(p, i)
        \/ \E i \in 1..Len(fut[p]) : WorkerFinish(p, i)
        \/ \E i \in 1..Len(fut[p]) : Collect(p, i)
        \/ PoolExit(p)

SpecPool == InitPool /\ [][NextPool]_vars

\* ------------------------------------------ a full sync that is scheduled

\* One invocation, akv update_all, about to list the vaults.
InitSync ==
    /\ remote \in RemoteStates
    /\ online = TRUE
    /\ file \in InitFiles
    /\ cmd = [p \in Procs |->
                 IF p = 1 THEN [op |-> "update_all", vault |-> <<>>, text |-> <<>>]
                 ELSE NoCmd]
    /\ pc = [p \in Procs |-> IF p = 1 THEN "fetch_all" ELSE "idle"]
    /\ InitLocals

NextSync ==
    \E p \in Procs :
        \/ FetchAll(p)
        \/ \E i \in 1..Len(fut[p]) : WorkerStart(p, i)
        \/ \E i \in 1..Len(fut[p]) : WorkerFinish(p, i)
        \/ \E i \in 1..Len(fut[p]) : Collect(p, i)
        \/ PoolExit(p)
        \/ WriteOpen(p)
        \/ WriteDump(p)

\* The operating system runs every thread that can run (the main thread
\* and the workers of the pool), and subprocess.run returns: every az
\* command ends, with an output or with an error.
FairSync ==
    \A p \in Procs :
        /\ WF_vars(FetchAll(p))
        /\ WF_vars(\E i \in 1..Len(fut[p]) : WorkerStart(p, i))
        /\ WF_vars(\E i \in 1..Len(fut[p]) : WorkerFinish(p, i))
        /\ WF_vars(\E i \in 1..Len(fut[p]) : Collect(p, i))
        /\ WF_vars(PoolExit(p))
        /\ WF_vars(WriteOpen(p))
        /\ WF_vars(WriteDump(p))

SpecSync == InitSync /\ [][NextSync]_vars /\ FairSync

\* ------------------------------------------------------------------ claims

Done(p) == pc[p] = "done"

\* The az call `call` of the invocation did not complete, ending as rc.
FailedCall(p, call, rc) == [call |-> call, rc |-> rc] \in failures[p]

\* The step is one of invocation p.
StepOf(p) == pc'[p] # pc[p] \/ wpos'[p] # wpos[p] \/ fut'[p] # fut[p]

\* The entries a file holds, complete or not.
Held(f) == {f.toks[i].e : i \in {j \in 1..Len(f.toks) :
                                    ~f.toks[j].end /\ ~f.toks[j].hole}}

\* The flattened paths of a snapshot, as the specification defines them.
RECURSIVE FlatPaths(_)
FlatPaths(c) ==
    IF c = <<>> THEN <<>>
    ELSE (IF Head(c).none \/ Head(c).s = <<>>
          THEN <<Head(c).k \o Slash>>
          ELSE [i \in 1..Len(Head(c).s) |-> Head(c).k \o Slash \o Head(c).s[i]])
         \o FlatPaths(Tail(c))

\* A pattern in which "*" stands for any run of characters and every other
\* character for itself, matched against the whole string.
RECURSIVE GlobMatch(_, _)
GlobMatch(pat, str) ==
    IF pat = <<>> THEN str = <<>>
    ELSE IF Head(pat) = "*"
         THEN \/ GlobMatch(Tail(pat), str)
              \/ str # <<>> /\ GlobMatch(pat, Tail(str))
         ELSE str # <<>> /\ Head(pat) = Head(str) /\ GlobMatch(Tail(pat), Tail(str))

\* The snapshot a full sync is to persist: every listed vault with its
\* fetched list, or with the empty entry where its call failed.
ExpectedFull(p) ==
    SortedCache(
        [i \in 1..Len(names[p]) |->
            IF fut[p][i].res.t = "raise" THEN NoneEntry(names[p][i])
            ELSE fut[p][i].res.v])

\* C1: a full sync whose vault listing did not fail ends with status 0
\* and has written the cache file: every listed vault with its fetched
\* secret list, a vault whose list-secrets call failed with the empty entry.
C1_FullSyncSurvivesVaultFailure ==
    \A p \in Procs :
        (Done(p) /\ cmd[p].op = "update_all"
                 /\ ~FailedCall(p, "keyvault list", "err"))
        => /\ exit[p] = 0
           /\ wrote[p]
           /\ \A i \in 1..Len(names[p]) : fut[p][i].state = "done"
           /\ buf[p] = ExpectedFull(p)

\* C2: the snapshot a single-vault sync for vault v persists holds every
\* entry of another vault that the cache file held when the sync read it,
\* with the same secret list, whether that file was valid or not.
C2_SingleVaultSyncKeepsOtherKeys ==
    \A p \in Procs :
        (Done(p) /\ InUpdateSpecificVault(p) /\ wrote[p] /\ met[p] # "none")
        => \A e \in Held(seen[p]) :
              e.k # cmd[p].vault => \E i \in 1..Len(buf[p]) : buf[p][i] = e

\* C3: a read_cache that meets bytes that are no valid document ends the
\* invocation with a format error; the caller gets no dict.
C3_CorruptCacheRaises ==
    \A p \in Procs :
        met[p] = "corrupt" => (Done(p) /\ exc[p] = "JSONDecodeError")

\* C4: whatever another invocation is writing, read_cache finds no file
\* or one complete snapshot, never an empty or half-written file.
C4_ReaderSeesCompleteSnapshot ==
    \A p \in Procs :
        met[p] # "none" => (~seen[p].exists \/ ValidJson(seen[p]))

\* C5: no step of a names-only sync whose vault-list call failed or
\* listed no vault changes the cache file: the sync ends at once, having
\* written nothing.
C5_NamesOnlySyncNoWrite ==
    [][\A p \in Procs :
          (/\ cmd'[p].op = "update"
           /\ pc'[p] \notin {"idle", "update_cache"}
           /\ \/ \E f \in failures'[p] : f.call = "keyvault list"
              \/ remote' = <<>>
           /\ StepOf(p))
          => (file' = file /\ pc'[p] = "done" /\ ~wrote'[p])]_vars

\* C5 witness: a names-only sync has ended after az listed no vault, and
\* the cache file still holds the snapshot it held.
C5_Witness ==
    \E p \in Procs :
        /\ Done(p) /\ cmd[p].op = "update"
        /\ remote = <<>> /\ failures[p] = {}
        /\ file \in InitFiles /\ file.exists

\* C6 as claimed: no step of a single-vault sync whose list-secrets call
\* did not complete (an error of az, or no az to run) changes the cache
\* file.
C6_Original ==
    [][\A p \in Procs :
          (/\ InUpdateSpecificVault(p)
           /\ \E f \in failures'[p] : f.call = "secret list"
           /\ StepOf(p))
          => (file' = file /\ ~wrote'[p])]_vars

\* C6 amended: no step of a single-vault sync whose list-secrets call
\* failed with an error of az (a connectivity failure or a service error)
\* changes the cache file: the sync ends at once, having written nothing.
C6_SingleVaultErrorNoWrite ==
    [][\A p \in Procs :
          (/\ InUpdateSpecificVault(p)
           /\ FailedCall(p, "secret list", "err")'
           /\ StepOf(p))
          => (file' = file /\ pc'[p] = "done" /\ ~wrote'[p])]_vars

\* C6 witness: a single-vault sync for a cached vault has ended on an
\* error of az, and the file holds the vault's entry as before.
C6_Witness ==
    \E p \in Procs :
        /\ Done(p) /\ cmd[p].op = "kv_update"
        /\ FailedCall(p, "secret list", "err")
        /\ file \in InitFiles /\ file.exists
        /\ \E e \in Held(file) : e.k = cmd[p].vault /\ e.s # <<>>

\* C7: a names-only or single-vault sync (that of kv add / kv edit too)
\* in which a list call of az failed with an error ends with status 1.
C7_DirectoryErrorExitsOne ==
    \A p \in Procs :
        (/\ Done(p)
         /\ cmd[p].op \in {"update", "kv_update", "kv_set"}
         /\ \/ FailedCall(p, "keyvault list", "err")
            \/ FailedCall(p, "secret list", "err"))
        => exit[p] = 1

\* The flattened paths a text with "*" is to match: "*" any run of
\* characters, every other character itself.
GlobHits(c, text) ==
    LET Hit(path) == GlobMatch(text, path)
    IN  SelectSeq(FlatPaths(c), Hit)

\* C8: for a search text with "*", the matches are the flattened paths
\* that equal the text with each "*" replaced by some run of characters.
C8_WildcardIsLiteralGlob ==
    \A p \in Procs :
        (Done(p) /\ cmd[p].op = "search" /\ HasStar(cmd[p].text))
        => matches[p] = GlobHits(cache[p], cmd[p].text)

PrefixHits(c, text) ==
    LET Hit(path) == StartsWith(path, text)
    IN  SelectSeq(FlatPaths(c), Hit)

\* C9: for a search text without "*", the matches are the flattened
\* paths that start with the text, in the order of the snapshot's keys and
\* of each vault's secrets.
C9_PrefixSearchExact ==
    \A p \in Procs :
        (Done(p) /\ cmd[p].op = "search" /\ ~HasStar(cmd[p].text))
        => matches[p] = PrefixHits(cache[p], cmd[p].text)

\* C9 witness: a search without "*" has matched some paths of a vault with
\* secrets and left others out.
C9_Witness ==
    \E p \in Procs :
        /\ Done(p) /\ cmd[p].op = "search" /\ ~HasStar(cmd[p].text)
        /\ Len(matches[p]) >= 2
        /\ Len(matches[p]) < Len(FlatPaths(cache[p]))

\* C10: a search whose text matches no flattened path of the snapshot it
\* read ends with the not-found error and status 1 and displays nothing;
\* no search ends with status 0 and nothing displayed.
C10_NoMatchRaises ==
    \A p \in Procs :
        (Done(p) /\ cmd[p].op = "search")
        => /\ (/\ met[p] # "none"
               /\ \A i \in 1..Len(FlatPaths(cache[p])) :
                     ~KeyMatches(FlatPaths(cache[p])[i], cmd[p].text))
              => (exit[p] = 1 /\ exc[p] = "No matches found" /\ out[p] = <<>>)
           /\ exit[p] = 0 => out[p] # <<>>

\* C10 witness: a search over a cache that holds vaults has ended with
\* the not-found error.
C10_Witness ==
    \E p \in Procs :
        /\ Done(p) /\ cmd[p].op = "search"
        /\ met[p] = "ok" /\ cache[p] # <<>>
        /\ exc[p] = "No matches found" /\ exit[p] = 1 /\ out[p] = <<>>

\* The invocation has changed the cache file: it has truncated it, or
\* written it to the end.
Touched(p) == pc[p] = "w_dump" \/ wrote[p]

\* C11 as claimed: a search runs no az command and does not change the
\* cache file, whether the file exists or not.
C11_Original ==
    \A p \in Procs :
        cmd[p].op = "search" => (calls[p] = 0 /\ ~Touched(p))

\* C11 amended: a search that found the cache file in place runs no az
\* command and does not change the file; one that found no file runs the
\* names-only sync before it loads: az keyvault list, once.
C11_SearchOfExistingCacheOnlyReads ==
    \A p \in Procs :
        cmd[p].op = "search"
        => /\ existed[p] # "no" => (calls[p] = 0 /\ ~Touched(p))
           /\ (existed[p] = "no" /\ pc[p] # "update_cache") => calls[p] = 1

\* C11 witness: a search has ended with matches over a file that was in
\* place, with no az command run, and the file is as it was.
C11_Witness ==
    \E p \in Procs :
        /\ Done(p) /\ cmd[p].op = "search"
        /\ existed[p] = "yes" /\ met[p] = "ok" /\ out[p] # <<>>
        /\ calls[p] = 0
        /\ file \in InitFiles

\* Each string is before the next in the order of the code points.
Ascending(strs) ==
    \A i \in 1..(Len(strs) - 1) : StrLess(strs[i], strs[i + 1])

\* C12: whenever the cache file is one complete document, its keys are
\* in ascending order and so are the names of every secret list.
C12_FileIsSorted ==
    ValidJson(file)
    => LET c == JsonLoad(file)
       IN  /\ Ascending(KeyList(c))
           /\ \A i \in 1..Len(c) : ~c[i].none /\ Ascending(c[i].s)

\* C12 witness: a sync has written the file to its end; az listed vault b
\* before vault a and the secret t before s, the file holds a before b and
\* s before t.
C12_Witness ==
    /\ ValidJson(file)
    /\ \E p \in Procs : wrote[p] /\ file.toks[1].w = p
    /\ KeyList(remote) = <<vb, va>>
    /\ Get(remote, vb).s = <<st, ss>>
    /\ JsonLoad(file) = <<Entry(va, <<>>), Entry(vb, <<ss, st>>)>>

\* Two full syncs met the same remote: the same listing, ended the same
\* way, and for every vault the same result of its list-secrets call.
SameOutcomes(p, q) ==
    /\ names[p] = names[q]
    /\ failures[p] = failures[q]
    /\ Len(fut[p]) = Len(fut[q])
    /\ \A i \in 1..Len(fut[p]) : fut[p][i].res = fut[q][i].res

\* C13: two full syncs that met the same remote have persisted the same
\* snapshot (or neither has written), in whatever order their calls
\* returned and whatever the file held before; a complete file left by
\* them holds that snapshot.
C13_FullSyncIdempotent ==
    \A p, q \in Procs :
        (/\ p # q
         /\ Done(p) /\ cmd[p].op = "update_all"
         /\ Done(q) /\ cmd[q].op = "update_all"
         /\ SameOutcomes(p, q))
        => /\ wrote[p] = wrote[q]
           /\ buf[p] = buf[q]
           /\ (wrote[p] /\ ValidJson(file)) => JsonLoad(file) = buf[p]

\* C13 witness: two full syncs over a stale cache have ended with the same
\* outcomes, their calls having returned in different orders, and the file
\* holds the one snapshot.
C13_Witness ==
    /\ \A p \in Procs : Done(p) /\ cmd[p].op = "update_all" /\ wrote[p]
    /\ SameOutcomes(1, 2)
    /\ KeyList(vaults[1]) # KeyList(vaults[2])
    /\ ValidJson(file)
    /\ JsonLoad(file) = buf[1]
    /\ JsonLoad(file) = <<Entry(va, <<>>), Entry(vb, <<ss, st>>)>>

\* C14: at no moment of a full sync are more than 10 list-secrets calls
\* started and not yet returned, however many vaults are listed.
C14_AtMostTenOutstanding ==
    \A p \in Procs : Cardinality(Running(p)) <= MaxWorkers

\* C14 witness: of more than 10 submitted fetches 10 are running and the
\* next waits in the queue.
C14_Witness ==
    \E p \in Procs :
        /\ Len(fut[p]) > MaxWorkers
        /\ Cardinality(Running(p)) = MaxWorkers
        /\ \E i \in 1..Len(fut[p]) : fut[p][i].state = "pending"

\* Every fetch of the full sync has returned a result and the loop over
\* as_completed has stored it.
AllMerged(p) ==
    /\ cmd[p].op = "update_all"
    /\ names[p] # <<>>
    /\ \A i \in 1..Len(fut[p]) : fut[p][i].taken /\ fut[p][i].res.t # "raise"

\* C15: the snapshot a full sync persists is the one the results of its
\* calls determine, in whatever order the calls returned, and holds every
\* listed vault exactly once.
C15_CompletionOrderIndependent ==
    \A p \in Procs :
        AllMerged(p)
        => /\ buf[p] = ExpectedFull(p)
           /\ Len(buf[p]) = Len(names[p])
           /\ \A i \in 1..Len(names[p]) :
                 Cardinality({j \in 1..Len(buf[p]) : buf[p][j].k = names[p][i]}) = 1

\* C15 witness: a full sync has written its snapshot after the fetch
\* submitted last returned first.
C15_Witness ==
    \E p \in Procs :
        /\ AllMerged(p) /\ Done(p) /\ wrote[p]
        /\ names[p] = <<vb, va>>
        /\ KeyList(vaults[p]) = <<va, vb>>
        /\ buf[p] = <<Entry(va, <<>>), Entry(vb, <<ss, st>>)>>

\* C16: once every invocation has ended and some have written the cache
\* file, the file is the complete snapshot of one of the writers.
C16_LastWriterWins ==
    (/\ \A p \in Procs : Done(p)
     /\ \E p \in Procs : wrote[p])
    => \E p \in Procs : wrote[p] /\ file = Dumped(p, buf[p])

\* The fetches whose result the loop over as_completed has stored.
Merged(p) ==
    {i \in 1..Len(fut[p]) : fut[p][i].taken /\ fut[p][i].res.t # "raise"}

\* fetch_keyvault_and_secret_names has returned the dict to update_all.
Returned(p) ==
    /\ cmd[p].op = "update_all"
    /\ pc[p] \in {"w_open", "w_dump"} \/ (Done(p) /\ exit[p] = 0)

LeftPool(p) ==
    /\ cmd[p].op = "update_all"
    /\ fut[p] # <<>>
    /\ pc[p] \notin {"pool", "pool_exit"}

\* C18: a full sync that has submitted its fetches leaves the pool,
\* with the dict or with an exception, only when every submitted fetch has
\* returned; and when every az command returns and every thread is run, a
\* full sync that has submitted its fetches ends.
C18_AwaitsAllThenTerminates ==
    /\ [](\A p \in Procs :
             LeftPool(p)
             => \A i \in 1..Len(fut[p]) : fut[p][i].state = "done")
    /\ \A p \in Procs : (pc[p] = "pool") ~> Done(p)

\* C18 witness: an exception has left the loop over as_completed while a
\* submitted fetch is still running, and the sync has not ended.
C18_Witness ==
    \E p \in Procs :
        /\ pc[p] = "pool_exit"
        /\ exc[p] = "AzureCLIError"
        /\ Running(p) # {}

\* C19: the snapshot a names-only sync has written holds exactly the
\* vaults the directory lists, each with the empty list, whatever the cache
\* file held before; a complete file of this writer is that snapshot.
C19_NamesOnlySnapshot ==
    \A p \in Procs :
        (cmd[p].op = "update" /\ wrote[p])
        => /\ {buf[p][i].k : i \in 1..Len(buf[p])}
                = {remote[i].k : i \in 1..Len(remote)}
           /\ Len(buf[p]) = Len(remote)
           /\ \A i \in 1..Len(buf[p]) : buf[p][i] = Entry(buf[p][i].k, <<>>)
           /\ (ValidJson(file) /\ file.toks[1].w = p) => JsonLoad(file) = buf[p]

\* C19 witness: a names-only sync, the only invocation so far, has ended
\* and the file holds vaults a and b with empty lists: not the stale vault
\* f nor the secret of a that the file may have held.
C19_Witness ==
    \E p \in Procs :
        /\ Done(p) /\ cmd[p].op = "update" /\ wrote[p] /\ exit[p] = 0
        /\ \A q \in Procs \ {p} : pc[q] = "idle"
        /\ file = Dumped(p, <<Entry(va, <<>>), Entry(vb, <<>>)>>)

\* C20: a full sync to which az listed no vault (an empty output, or no
\* az to run) does not change the cache file.
C20_EmptyListingKeepsCache ==
    \A p \in Procs :
        (/\ cmd[p].op = "update_all"
         /\ pc[p] \notin {"idle", "fetch_all"}
         /\ names[p] = <<>>
         /\ ~FailedCall(p, "keyvault list", "err"))
        => ~Touched(p)

=============================================================================
